---- MODULE Spec2Model ----
(***************************************************************************)
(* Model of the medical-report analyser (app_analisador_medico.py and its  *)
(* copy under meu_app_medico/).                                            *)
(*                                                                         *)
(* A text is a sequence of one-character strings.  The regular expressions *)
(* of process_medical_text are modelled by what Python's re module does on *)
(* them: leftmost match, greedy and lazy quantifiers with backtracking,    *)
(* \b as a change of word/non-word class, re.IGNORECASE as a comparison of *)
(* lower-cased characters.  The language pipeline (spaCy) is external: its *)
(* output for a text is chosen from a bounded set of segmentations and     *)
(* entity lists.                                                           *)
(***************************************************************************)
EXTENDS Integers, Sequences, FiniteSets, TLC

VARIABLES
  script,            \* which copy of the page script the process runs
  installed,         \* spaCy models present on the machine
  hashseed,          \* the interpreter's string-hash order (fixed per process)
  cache_resource,    \* st.cache_resource entry of load_spacy_model (0: empty)
  cache_data,        \* st.cache_data entries of extract_text_from_pdf
  loads,             \* number of successful spacy.load calls so far
  nlp,               \* the pipeline instance bound to the global nlp (0: none)
  uploaded_file,     \* the file held by the uploader widget (NoFile: none)
  button,            \* what st.button returned in the last run
  pdf_text,          \* the script's pdf_text / the analyser's argument
  doc,               \* the pipeline's output in the last analysis
  analysis_results,  \* the record the last analysis returned
  shown,             \* the messages and sections the last run rendered
  parsed,            \* what the pipeline returned for each text it has seen
  history            \* per text analysed so far: the first record returned, and
                     \* whether the text has been analysed again since

vars == << script, installed, hashseed, cache_resource, cache_data, loads, nlp,
           uploaded_file, button, pdf_text, doc, analysis_results, shown, parsed,
           history >>

----------------------------------------------------------------------------
(* Bounds of the model *)

\* length of the filler that separates an exam term from what follows it
FillLen == 45
\* length of the long word used to exceed the truncation limit
LongLen == 101
\* the pipeline reports at most MaxEnts entities, among the first MaxEnts words
MaxEnts == 1
\* the pipeline splits a text at no more than MaxSplits places
MaxSplits == 2
\* spacy.load succeeds at most MaxLoads times in a modelled process
MaxLoads == 3

(* Constants of the program *)

\* diagnosis[:100], diff_diag[:100]
TruncateAt == 100
\* the context window around an exam term
ContextRadius == 50
\* potential_diagnoses[:3]
MaxPotential == 3
\* len(found_treatments) >= 2
MaxTreatmentSentences == 2

----------------------------------------------------------------------------
(* Characters and Python's string operations *)

Range(s) == { s[i] : i \in DOMAIN s }
MinOf(S) == CHOOSE x \in S : \A y \in S : x <= y
MaxOf(S) == CHOOSE x \in S : \A y \in S : x >= y

LowerLetters == <<"a","b","c","d","e","f","g","h","i","j","k","l","m","n","o","p","q","r","s","t","u","v","w","x","y","z","á","â","ã","ç","é","ê","í","ó","ú">>
UpperLetters == <<"A","B","C","D","E","F","G","H","I","J","K","L","M","N","O","P","Q","R","S","T","U","V","W","X","Y","Z","Á","Â","Ã","Ç","É","Ê","Í","Ó","Ú">>
Digits == {"0","1","2","3","4","5","6","7","8","9"}
\* \w
WordChars == Range(LowerLetters) \cup Range(UpperLetters) \cup Digits \cup {"_"}
\* \s
SpaceChars == {" ", "\n", "\t"}
Punctuation == {".", ",", ";", ":", "-", "(", ")"}
\* . (any character but a newline)
DotChars == (WordChars \cup SpaceChars \cup Punctuation) \ {"\n"}

Alphabet == WordChars \cup SpaceChars \cup Punctuation
LowerOf == [ c \in Alphabet |->
               IF c \in Range(UpperLetters)
               THEN LowerLetters[CHOOSE i \in DOMAIN UpperLetters : UpperLetters[i] = c]
               ELSE c ]
UpperOf == [ c \in Alphabet |->
               IF c \in Range(LowerLetters)
               THEN UpperLetters[CHOOSE i \in DOMAIN LowerLetters : LowerLetters[i] = c]
               ELSE c ]
Lower(c) == LowerOf[c]
Upper(c) == UpperOf[c]

\* str.lower()
str_lower(s) == [ i \in 1..Len(s) |-> Lower(s[i]) ]

\* str.capitalize(): first character upper-cased, the rest lower-cased
capitalize(s) == [ i \in 1..Len(s) |-> IF i = 1 THEN Upper(s[i]) ELSE Lower(s[i]) ]

\* str.strip()
strip(s) ==
  LET inner == { i \in 1..Len(s) : s[i] \notin SpaceChars }
  IN  IF inner = {} THEN << >> ELSE SubSeq(s, MinOf(inner), MaxOf(inner))

\* re.sub(r'[,.;:\s]+$', '', s)
strip_trailing(s) ==
  LET keep == { n \in 0..Len(s) :
                  \A k \in (n+1)..Len(s) : s[k] \in SpaceChars \cup {",", ".", ";", ":"} }
  IN  SubSeq(s, 1, MinOf(keep))

\* if len(s) > 100: s = s[:100] + "..."
truncate_never(s) == s
truncate(s) ==
  IF Len(s) > TruncateAt THEN SubSeq(s, 1, TruncateAt) \o <<".",".",".">> ELSE s

\* the character of t at index i is a word character (FALSE outside t)
IsWordAt(t, i) == i >= 1 /\ i <= Len(t) /\ t[i] \in WordChars

\* \b just before index i of t
word_boundary(t, i) == IsWordAt(t, i - 1) # IsWordAt(t, i)

\* re.escape(w) under re.IGNORECASE, matched at index i of t
match_literal(w, t, i) ==
  /\ i + Len(w) - 1 <= Len(t)
  /\ \A k \in 1..Len(w) : Lower(t[i + k - 1]) = Lower(w[k])

\* r'\b' + re.escape(w) + r'\b' matched at index i of t
match_word_no_right_boundary(w, t, i) ==
  match_literal(w, t, i) /\ word_boundary(t, i)
match_word(w, t, i) ==
  match_literal(w, t, i) /\ word_boundary(t, i) /\ word_boundary(t, i + Len(w))

\* the indices of t that have a \b just before them
boundaries(t) == { i \in 1..(Len(t) + 1) : word_boundary(t, i) }

\* re.search(r'\b' + re.escape(w) + r'\b', t, re.IGNORECASE) is not None, where B is
\* boundaries(t): a match can only start at one of them
search_word(w, t, B) == \E i \in B : match_word(w, t, i)

\* re.search(re.escape(w), t, re.IGNORECASE) is not None
search_literal(w, t) == \E i \in 1..Len(t) : match_literal(w, t, i)

\* s.find(sub): the 0-based index of the first occurrence, -1 when there is none
find(s, sub) ==
  LET at == { i \in 1..Len(s) :
                /\ i + Len(sub) - 1 <= Len(s)
                /\ \A k \in 1..Len(sub) : s[i + k - 1] = sub[k] }
  IN  IF at = {} THEN -1 ELSE MinOf(at) - 1

\* s[a:b] for 0 <= a and 0 <= b <= len(s)
slice(s, a, b) == SubSeq(s, a + 1, b)

\* sep.join(parts)
RECURSIVE join(_, _)
join(sep, parts) ==
  IF parts = << >> THEN << >>
  ELSE IF Len(parts) = 1 THEN parts[1]
  ELSE parts[1] \o sep \o join(sep, Tail(parts))

\* the number of consecutive characters of t, from index p on, that are in C
run_length(t, p, C) ==
  MinOf({ k \in 0..(Len(t) - p + 1) : p + k > Len(t) \/ t[p + k] \notin C })

NoMatch == [ found |-> FALSE, group |-> << >> ]

\* After a trigger that ends just before index p: [:\s]* (greedy), then a lazy
\* run of at least minlen characters of C (the group), then a terminator: T is the
\* set of indices of t at which the terminator matches.  The engine tries the
\* longest [:\s]* first and, for each, the shortest group.
capture_after(t, p, C, minlen, T) ==
  LET amax == run_length(t, p, SpaceChars \cup {":"})
      glens == [ a \in 0..amax |->
                   { g \in minlen..run_length(t, p + a, C) : p + a + g \in T } ]
      as == { a \in 0..amax : glens[a] # {} }
  IN  IF as = {} THEN NoMatch
      ELSE LET a == MaxOf(as)
               g == MinOf(glens[a])
           IN  [ found |-> TRUE, group |-> SubSeq(t, p + a, p + a + g - 1) ]

----------------------------------------------------------------------------
(* The fixed tables of process_medical_text *)

keywords_recognition_list ==
  << <<"s","i","n","t","o","m","a">>,
     <<"s","i","n","t","o","m","a","s">>,
     <<"a","c","h","a","d","o">>,
     <<"a","c","h","a","d","o","s">>,
     <<"c","l","í","n","i","c","o">>,
     <<"c","l","í","n","i","c","a">>,
     <<"h","i","s","t","ó","r","i","a">>,
     <<"q","u","a","d","r","o">>,
     <<"p","a","c","i","e","n","t","e">>,
     <<"q","u","e","i","x","a">>,
     <<"q","u","e","i","x","a","s">>,
     <<"d","o","r">>,
     <<"f","e","b","r","e">>,
     <<"i","n","f","l","a","m","a","ç","ã","o">>,
     <<"i","n","f","e","c","ç","ã","o">>,
     <<"a","l","t","e","r","a","ç","ã","o">>,
     <<"l","e","s","ã","o">>,
     <<"p","r","e","s","e","n","ç","a"," ","d","e">>,
     <<"e","v","i","d","ê","n","c","i","a"," ","d","e">>,
     <<"e","x","a","m","e"," ","f","í","s","i","c","o">>,
     <<"a","n","a","m","n","e","s","e">>,
     <<"r","e","s","u","l","t","a","d","o"," ","d","e">> >>

exam_keywords_list ==
  << <<"r","e","s","s","o","n","â","n","c","i","a"," ","m","a","g","n","é","t","i","c","a">>,
     <<"t","o","m","o","g","r","a","f","i","a"," ","c","o","m","p","u","t","a","d","o","r","i","z","a","d","a">>,
     <<"r","a","i","o","-","x">>,
     <<"u","l","t","r","a","s","s","o","n","o","g","r","a","f","i","a">>,
     <<"e","x","a","m","e"," ","d","e"," ","s","a","n","g","u","e">>,
     <<"h","e","m","o","g","r","a","m","a">>,
     <<"u","r","i","n","a">>,
     <<"c","u","l","t","u","r","a">>,
     <<"b","i","ó","p","s","i","a">>,
     <<"e","n","d","o","s","c","o","p","i","a">>,
     <<"c","o","l","o","n","o","s","c","o","p","i","a">>,
     <<"e","l","e","t","r","o","c","a","r","d","i","o","g","r","a","m","a">>,
     <<"t","e","s","t","e"," ","e","r","g","o","m","é","t","r","i","c","o">>,
     <<"s","o","r","o","l","o","g","i","a">>,
     <<"P","C","R">>,
     <<"a","n","a","t","o","m","o","p","a","t","o","l","ó","g","i","c","o">>,
     <<"i","m","u","n","o","h","i","s","t","o","q","u","í","m","i","c","a">>,
     <<"c","u","l","t","u","r","a"," ","d","e"," ","u","r","i","n","a">>,
     <<"t","e","s","t","e"," ","d","e"," ","g","l","i","c","e","m","i","a">>,
     <<"c","o","l","e","s","t","e","r","o","l">>,
     <<"t","r","i","g","l","i","c","e","r","í","d","e","o","s">>,
     <<"c","r","e","a","t","i","n","i","n","a">>,
     <<"u","r","e","i","a">>,
     <<"e","c","o","c","a","r","d","i","o","g","r","a","m","a">>,
     <<"t","e","s","t","e"," ","d","e"," ","f","u","n","ç","ã","o"," ","p","u","l","m","o","n","a","r">>,
     <<"e","s","p","i","r","o","m","e","t","r","i","a">>,
     <<"t","o","m","o","g","r","a","f","i","a"," ","p","o","r"," ","e","m","i","s","s","ã","o"," ","d","e"," ","p","ó","s","i","t","r","o","n","s">>,
     <<"P","E","T","-","C","T">> >>

treatment_keywords_list ==
  << <<"t","r","a","t","a","m","e","n","t","o">>,
     <<"t","e","r","a","p","i","a">>,
     <<"m","e","d","i","c","a","ç","ã","o">>,
     <<"m","e","d","i","c","a","m","e","n","t","o">>,
     <<"c","i","r","u","r","g","i","a">>,
     <<"i","n","t","e","r","v","e","n","ç","ã","o">>,
     <<"a","c","o","n","s","e","l","h","a","m","e","n","t","o">>,
     <<"r","e","a","b","i","l","i","t","a","ç","ã","o">>,
     <<"d","o","s","e">>,
     <<"p","r","e","s","c","r","i","ç","ã","o">>,
     <<"c","o","n","d","u","t","a">>,
     <<"i","n","d","i","c","a","d","o">>,
     <<"a","d","m","i","n","i","s","t","r","a","r">>,
     <<"u","s","o"," ","d","e">>,
     <<"c","i","r","ú","r","g","i","c","o">>,
     <<"f","a","r","m","a","c","o","l","ó","g","i","c","o">>,
     <<"f","i","s","i","o","t","e","r","a","p","i","a">>,
     <<"q","u","i","m","i","o","t","e","r","a","p","i","a">>,
     <<"r","a","d","i","o","t","e","r","a","p","i","a">>,
     <<"d","i","e","t","a">>,
     <<"r","e","p","o","u","s","o">> >>

differential_keywords_list ==
  << <<"d","i","a","g","n","ó","s","t","i","c","o"," ","d","i","f","e","r","e","n","c","i","a","l">>,
     <<"D","D">>,
     <<"d","e","s","c","a","r","t","a","r">>,
     <<"e","x","c","l","u","i","r">>,
     <<"c","o","n","s","i","d","e","r","a","r"," ","a"," ","p","o","s","s","i","b","i","l","i","d","a","d","e"," ","d","e">> >>

diagnosis_triggers ==
  << <<"d","i","a","g","n","ó","s","t","i","c","o"," ","d","e">>,
     <<"c","o","m","p","a","t","í","v","e","l"," ","c","o","m">>,
     <<"s","u","g","e","s","t","i","v","o"," ","d","e">>,
     <<"h","i","p","ó","t","e","s","e"," ","d","i","a","g","n","ó","s","t","i","c","a">> >>

diagnosis_labels == {"DISEASE", "MEDICAL_CONDITION", "SYMPTOM", "ORG"}

gold_phrases == { <<"p","a","d","r","ã","o"," ","o","u","r","o">>, <<"g","o","l","d"," ","s","t","a","n","d","a","r","d">> }

NaoIdentificado == <<"N","ã","o"," ","i","d","e","n","t","i","f","i","c","a","d","o"," ","c","l","a","r","a","m","e","n","t","e">>
NaoIdentificadoManual == <<"N","ã","o"," ","i","d","e","n","t","i","f","i","c","a","d","o"," ","c","l","a","r","a","m","e","n","t","e"," ","(","r","e","q","u","e","r"," ","a","n","á","l","i","s","e"," ","m","a","n","u","a","l",")">>
Mencionado == <<" ","(","m","e","n","c","i","o","n","a","d","o",")">>

----------------------------------------------------------------------------
(* process_medical_text *)

\* 1. recognition keywords
palavras_chave(text) ==
  LET B == boundaries(text)
  IN  { keywords_recognition_list[k] : k \in
          { k \in DOMAIN keywords_recognition_list :
              search_word(keywords_recognition_list[k], text, B) } }

\* the terminators of the diagnosis regex, tried at index p:
\* (?:\.|\n|e\s|\bpara\b|em\s|\bcom\b|\bsem\b|$)
diagnosis_terminator(t, p) ==
  \/ p = Len(t) + 1
  \/ p <= Len(t) /\ t[p] \in {".", "\n"}
  \/ match_literal(<<"e">>, t, p) /\ p + 1 <= Len(t) /\ t[p + 1] \in SpaceChars
  \/ match_literal(<<"e","m">>, t, p) /\ p + 2 <= Len(t) /\ t[p + 2] \in SpaceChars
  \/ match_word(<<"p","a","r","a">>, t, p)
  \/ match_word(<<"c","o","m">>, t, p)
  \/ match_word(<<"s","e","m">>, t, p)

\* [\w\s,-]
DiagnosisChars == WordChars \cup SpaceChars \cup {",", "-"}

diagnosis_terminators(t) == { p \in 1..(Len(t) + 1) : diagnosis_terminator(t, p) }

\* the diagnosis regex tried at index i of text: the first trigger, in the order of
\* the alternation, that is at i and after which the rest of the regex matches
diagnosis_at(text, i) ==
  LET tried == [ k \in DOMAIN diagnosis_triggers |->
                   IF match_literal(diagnosis_triggers[k], text, i)
                   THEN capture_after(text, i + Len(diagnosis_triggers[k]),
                                      DiagnosisChars, 1, diagnosis_terminators(text))
                   ELSE NoMatch ]
      ks == { k \in DOMAIN diagnosis_triggers : tried[k].found }
  IN  IF ks = {} THEN NoMatch ELSE tried[MinOf(ks)]

\* match_diag = re.search(<diagnosis regex>, text, re.IGNORECASE): the leftmost match
match_diag(text) ==
  LET starts == { i \in 1..Len(text) :
                    \E k \in DOMAIN diagnosis_triggers :
                      match_literal(diagnosis_triggers[k], text, i) }
      tried == [ i \in starts |-> diagnosis_at(text, i) ]
      hits == { i \in starts : tried[i].found }
  IN  IF hits = {} THEN NoMatch ELSE tried[MinOf(hits)]

\* list(set(xs)): the distinct elements of xs, in the interpreter's hash order
RECURSIVE distinct(_)
distinct(xs) ==
  IF xs = << >> THEN << >>
  ELSE LET rest == distinct(SubSeq(xs, 1, Len(xs) - 1))
           x == xs[Len(xs)]
       IN  IF x \in Range(rest) THEN rest ELSE Append(rest, x)
list_of_set(xs, seed) ==
  LET d == distinct(xs)
  IN  IF seed = 0 THEN d ELSE [ i \in 1..Len(d) |-> d[Len(d) + 1 - i] ]

\* potential_diagnoses: the texts of the entities whose label is accepted
potential_all_labels(ents) == [ i \in 1..Len(ents) |-> ents[i].text ]
potential_diagnoses(ents) ==
  LET kept == SelectSeq(ents, LAMBDA e : e.label \in diagnosis_labels)
  IN  [ i \in 1..Len(kept) |-> kept[i].text ]

\* 2. possible diagnosis
diagnostico_possivel(text, d, seed) ==
  LET m == match_diag(text)
      potential == potential_diagnoses(d.ents)
  IN  IF m.found
      THEN capitalize(truncate(strip_trailing(strip(m.group))))
      ELSE IF potential # << >>
      THEN capitalize(join(<<","," ">>,
             list_of_set(SubSeq(potential, 1,
                                IF Len(potential) < MaxPotential
                                THEN Len(potential) ELSE MaxPotential), seed)))
      ELSE NaoIdentificado

\* context_around_exam = text[max(0, pos - 50) : min(len(text), pos + len(exam) + 50)]
\* with pos = text.lower().find(exam.lower())
context_around_exam(text, exam) ==
  LET pos == find(str_lower(text), str_lower(exam))
      lo == pos - ContextRadius
      hi == pos + Len(exam) + ContextRadius
  IN  slice(text, IF lo > 0 THEN lo ELSE 0, IF hi < Len(text) THEN hi ELSE Len(text))

\* re.search(r'padrão ouro|gold standard', context_around_exam, re.IGNORECASE)
is_gold(text, exam) ==
  \E g \in gold_phrases : search_literal(g, context_around_exam(text, exam))

exams_present(text) ==
  LET B == boundaries(text)
  IN  { k \in DOMAIN exam_keywords_list : search_word(exam_keywords_list[k], text, B) }

\* 3. gold-standard exams
exames_padrao_ouro(text, present) ==
  { capitalize(exam_keywords_list[k]) : k \in
      { k \in present : is_gold(text, exam_keywords_list[k]) } }

\* 4. complementary exams
complementares_always(text, present) ==
  { capitalize(exam_keywords_list[k]) : k \in present }
exames_complementares(text, present) ==
  { capitalize(exam_keywords_list[k]) : k \in
      { k \in present : ~ is_gold(text, exam_keywords_list[k]) } }

\* any(re.search(r'\b' + re.escape(keyword) + r'\b', s, re.IGNORECASE) for keyword in ...)
has_treatment_term(s) ==
  LET B == boundaries(s)
  IN  \E k \in DOMAIN treatment_keywords_list :
        search_word(treatment_keywords_list[k], s, B)

\* found_treatments: the first two sentences that hold a treatment term, stripped
found_treatments_unbounded(sents) ==
  LET hits == SelectSeq(sents, has_treatment_term)
  IN  [ i \in 1..Len(hits) |-> strip(hits[i]) ]
found_treatments(sents) ==
  LET hits == SelectSeq(sents, has_treatment_term)
      firsts == SubSeq(hits, 1, IF Len(hits) < MaxTreatmentSentences
                                THEN Len(hits) ELSE MaxTreatmentSentences)
  IN  [ i \in 1..Len(firsts) |-> strip(firsts[i]) ]

\* 5. suggested treatment
tratamento_sugerido(text, d) ==
  LET found == found_treatments(d.sents)
      B == boundaries(text)
      ks == { k \in DOMAIN treatment_keywords_list :
                search_word(treatment_keywords_list[k], text, B) }
  IN  IF found # << >> THEN capitalize(join(<<" ">>, found))
      ELSE IF ks # {} THEN capitalize(treatment_keywords_list[MinOf(ks)]) \o Mencionado
      ELSE NaoIdentificado

\* the terminators of the differential regex: (?:\.|\n|e\s|\bcom\b|$)
differential_terminator_no_end(t, p) ==
  \/ p <= Len(t) /\ t[p] \in {".", "\n"}
  \/ match_literal(<<"e">>, t, p) /\ p + 1 <= Len(t) /\ t[p + 1] \in SpaceChars
  \/ match_word(<<"c","o","m">>, t, p)
differential_terminator(t, p) ==
  \/ p = Len(t) + 1
  \/ p <= Len(t) /\ t[p] \in {".", "\n"}
  \/ match_literal(<<"e">>, t, p) /\ p + 1 <= Len(t) /\ t[p + 1] \in SpaceChars
  \/ match_word(<<"c","o","m">>, t, p)

differential_terminators(t) == { p \in 1..(Len(t) + 1) : differential_terminator(t, p) }

\* match_dd = re.search(r'(' + re.escape(keyword) + r'[:\s]*(.*?)(?:\.|\n|e\s|\bcom\b|$))', ...)
match_dd(text, keyword) ==
  LET starts == { i \in 1..Len(text) : match_literal(keyword, text, i) }
      tried == [ i \in starts |->
                   capture_after(text, i + Len(keyword), DotChars, 0,
                                 differential_terminators(text)) ]
      hits == { i \in starts : tried[i].found }
  IN  IF hits = {} THEN NoMatch ELSE tried[MinOf(hits)]

\* the entry appended to found_diff_diag for a trigger present in the text
differential_entry(text, keyword) ==
  LET m == match_dd(text, keyword)
  IN  IF m.found THEN capitalize(truncate(strip_trailing(strip(m.group))))
      ELSE capitalize(keyword)

found_diff_diag(text) ==
  LET B == boundaries(text)
      present == SelectSeq(differential_keywords_list,
                           LAMBDA kw : search_word(kw, text, B))
  IN  [ i \in 1..Len(present) |-> differential_entry(text, present[i]) ]

\* 6. differential diagnosis
diagnostico_diferencial_sentinel_kept(text) ==
  Range(found_diff_diag(text)) \cup { NaoIdentificadoManual }
diagnostico_diferencial(text) ==
  LET found == found_diff_diag(text)
  IN  IF found # << >> THEN Range(found) ELSE { NaoIdentificadoManual }

\* extracted_info as process_medical_text creates it at each call
extracted_info_kept ==
  IF history = << >> THEN
    [ palavras_chave |-> {}, exames_padrao_ouro |-> {}, exames_complementares |-> {} ]
  ELSE
    [ palavras_chave        |->
        UNION { history[t].record.palavras_chave : t \in DOMAIN history },
      exames_padrao_ouro    |->
        UNION { history[t].record.exames_padrao_ouro : t \in DOMAIN history },
      exames_complementares |->
        UNION { history[t].record.exames_complementares : t \in DOMAIN history } ]
extracted_info ==
  [ palavras_chave |-> {}, exames_padrao_ouro |-> {}, exames_complementares |-> {} ]

\* The record process_medical_text(text) returns when nlp(text.lower()) is d.  The
\* four list(set) fields are kept as sets: their order is not part of any result.
process_medical_text(text, d, seed) ==
  LET present == exams_present(text)
  IN
  [ palavras_chave          |-> extracted_info.palavras_chave \cup palavras_chave(text),
    diagnostico_possivel    |-> diagnostico_possivel(text, d, seed),
    exames_padrao_ouro      |->
      extracted_info.exames_padrao_ouro \cup exames_padrao_ouro(text, present),
    exames_complementares   |->
      extracted_info.exames_complementares \cup exames_complementares(text, present),
    tratamento_sugerido     |-> tratamento_sugerido(text, d),
    diagnostico_diferencial |-> diagnostico_diferencial(text) ]

----------------------------------------------------------------------------
(* The language pipeline: nlp(text.lower()) *)

\* the elements of a set of integers, ascending
in_order(S) ==
  [ n \in 1..Cardinality(S) |-> CHOOSE i \in S : Cardinality({ j \in S : j <= i }) = n ]

NerLabels == {"ORG", "PER"}

\* the indices at which the first MaxEnts words of t start
first_words(t) ==
  LET ws == { i \in 1..Len(t) : IsWordAt(t, i) /\ ~ IsWordAt(t, i - 1) }
  IN  { i \in ws : Cardinality({ j \in ws : j <= i }) <= MaxEnts }

word_at(t, i) == SubSeq(t, i, i + run_length(t, i, WordChars) - 1)

\* doc.ents: at most MaxEnts words, in document order, each with a label
Entities(t) ==
  UNION { { [ n \in 1..Cardinality(E) |->
                [ text |-> word_at(t, in_order(E)[n]), label |-> lab[in_order(E)[n]] ] ]
            : lab \in [E -> NerLabels] }
          : E \in { E \in SUBSET first_words(t) : Cardinality(E) <= MaxEnts } }

\* doc.sents: t cut after some of its periods and newlines
sentences(t, K) ==
  IF t = << >> THEN << >>
  ELSE LET ends == in_order(K \cup {Len(t)})
       IN  [ n \in 1..Len(ends) |->
               SubSeq(t, IF n = 1 THEN 1 ELSE ends[n - 1] + 1, ends[n]) ]

Segmentations(t) ==
  LET cuts == { i \in 1..(Len(t) - 1) : t[i] \in {".", "\n"} }
  IN  { sentences(t, K) : K \in { K \in SUBSET cuts : Cardinality(K) <= MaxSplits } }

\* the outputs the pipeline may give for text
Docs(text) ==
  { [ sents |-> s, ents |-> e ] :
      s \in Segmentations(str_lower(text)), e \in Entities(str_lower(text)) }

HashSeeds == {0, 1}

----------------------------------------------------------------------------
(* Input texts *)

Fill == [ i \in 1..FillLen |-> "x" ]
LongWord == [ i \in 1..LongLen |-> "y" ]

Phrases ==
  { << >>,
    <<"B","o","m"," ","e","s","t","a","d","o"," ","g","e","r","a","l",".">>,
    <<"D","o","r","m","i","r"," ","b","e","m",".">>,
    <<"D","O","R"," ","e"," ","f","e","b","r","e",".">>,
    <<"P","r","e","s","e","n","ç","a"," ","d","e"," ","l","e","s","ã","o">>,
    <<"D","i","a","g","n","ó","s","t","i","c","o"," ","d","e"," ","p","n","e","u","m","o","n","i","a"," ","b","a","c","t","e","r","i","a","n","a",".">>,
    <<"D","i","a","g","n","ó","s","t","i","c","o"," ","d","e"," ","h","e","p","a","t","i","t","e"," ","a","g","u","d","a",".">>,
    <<"H","i","p","ó","t","e","s","e"," ","d","i","a","g","n","ó","s","t","i","c","a",":"," ",".">>,
    <<"s","u","g","e","s","t","i","v","o"," ","d","e"," ">> \o LongWord,
    <<"H","e","m","o","g","r","a","m","a"," ">> \o Fill,
    <<"V","i","a","s"," ","u","r","i","n","a","r","i","a","s"," ">> \o Fill,
    <<"u","r","i","n","a"," ","p","a","d","r","ã","o"," ","o","u","r","o",".">>,
    <<"P","E","T","-","C","T"," ","(","g","o","l","d"," ","s","t","a","n","d","a","r","d",")","\n">>,
    <<"T","r","a","t","a","m","e","n","t","o"," ","c","o","m"," ","r","e","p","o","u","s","o","."," ","D","i","e","t","a"," ","l","e","v","e",".">>,
    <<"u","s","o"," ","d","e"," ","a","n","t","i","b","i","ó","t","i","c","o",".">>,
    <<"D","D",":"," ","t","u","b","e","r","c","u","l","o","s","e"," ","e"," ","s","a","r","c","o","i","d","o","s","e",".">>,
    <<"D","e","s","c","a","r","t","a","r",".">>,
    <<"E","x","c","l","u","i","r">>,
    <<"a","d","d","e","n","d","u","m">> }

JoinText(a, b) ==
  IF a = << >> THEN b ELSE IF b = << >> THEN a ELSE a \o << " " >> \o b

Texts == { JoinText(a, b) : a \in Phrases, b \in Phrases }

----------------------------------------------------------------------------------------------------------------------------------------
(* The analyser applied to one text *)

NoFile == [ name |-> "none", pages |-> << >> ]

InitText ==
  /\ script = "app"
  /\ installed = {"pt_core_news_sm"}
  /\ hashseed = 0
  /\ cache_resource = 1
  /\ cache_data = {}
  /\ loads = 1
  /\ nlp = 1
  /\ uploaded_file = NoFile
  /\ button = FALSE
  /\ pdf_text \in Texts
  /\ doc = << >>
  /\ analysis_results = << >>
  /\ shown = {}
  /\ parsed = << >>
  /\ history = << >>

\* analysis_results = process_medical_text(pdf_text)
Analyze ==
  /\ analysis_results = << >>
  /\ \E d \in Docs(pdf_text) :
       LET r == process_medical_text(pdf_text, d, hashseed)
       IN  /\ doc' = << d >>
           /\ parsed' = (pdf_text :> d)
           /\ analysis_results' = << r >>
           /\ history' = (pdf_text :> [ record |-> r, again |-> FALSE ])
  /\ UNCHANGED << script, installed, hashseed, cache_resource, cache_data, loads, nlp,
                  uploaded_file, button, pdf_text, shown >>

NextText == Analyze

SpecText == InitText /\ [][NextText]_vars

----------------------------------------------------------------------------
(* The analyser applied to one text, with sentences that may end after any   *)
(* token: the pipeline is free to put a sentence boundary between two words. *)

\* doc.sents: t cut after some of its spaces, periods and newlines
SegmentationsAtTokens(t) ==
  LET cuts == { i \in 1..(Len(t) - 1) : t[i] \in {" ", ".", "\n"} }
  IN  { sentences(t, K) : K \in { K \in SUBSET cuts : Cardinality(K) <= MaxSplits } }

DocsAtTokens(text) ==
  { [ sents |-> s, ents |-> e ] :
      s \in SegmentationsAtTokens(str_lower(text)), e \in Entities(str_lower(text)) }

TreatmentTexts ==
  { << >>,
    <<"B","o","m"," ","e","s","t","a","d","o"," ","g","e","r","a","l",".">>,
    <<"U","s","o"," ","d","e"," ","a","n","t","i","b","i","ó","t","i","c","o",".">>,
    <<"D","I","E","T","A"," ","l","e","v","e",".","\n","D","o","r","m","i","r"," ","b","e","m",".">>,
    <<"S","e","m"," ","d","i","e","t","a","."," ","U","s","o"," ","d","e"," ","s","o","r","o",".">>,
    <<"T","r","a","t","a","m","e","n","t","o"," ","c","o","m"," ","r","e","p","o","u","s","o","."," ","D","i","e","t","a"," ","l","e","v","e","."," ","u","s","o"," ","d","e"," ","a","n","t","i","b","i","ó","t","i","c","o",".">> }

InitTreatment ==
  /\ script = "app"
  /\ installed = {"pt_core_news_sm"}
  /\ hashseed = 0
  /\ cache_resource = 1
  /\ cache_data = {}
  /\ loads = 1
  /\ nlp = 1
  /\ uploaded_file = NoFile
  /\ button = FALSE
  /\ pdf_text \in TreatmentTexts
  /\ doc = << >>
  /\ analysis_results = << >>
  /\ shown = {}
  /\ parsed = << >>
  /\ history = << >>

\* analysis_results = process_medical_text(pdf_text)
AnalyzeTreatment ==
  /\ analysis_results = << >>
  /\ \E d \in DocsAtTokens(pdf_text) :
       LET r == process_medical_text(pdf_text, d, hashseed)
       IN  /\ doc' = << d >>
           /\ parsed' = (pdf_text :> d)
           /\ analysis_results' = << r >>
           /\ history' = (pdf_text :> [ record |-> r, again |-> FALSE ])
  /\ UNCHANGED << script, installed, hashseed, cache_resource, cache_data, loads, nlp,
                  uploaded_file, button, pdf_text, shown >>

NextTreatment == AnalyzeTreatment

SpecTreatment == InitTreatment /\ [][NextTreatment]_vars

----------------------------------------------------------------------------
(* The page script.  Streamlit executes the whole script again at every      *)
(* interaction; the caches and the loaded models outlive a run.              *)

Scripts == {"app", "meu_app"}
Models == {"pt_core_news_sm", "en_core_web_sm"}

\* a page of a PDF: the text page.extract_text() returns, or an exception
Page(text) == [ text |-> text, raises |-> FALSE ]
BadPage == [ text |-> << >>, raises |-> TRUE ]

Files ==
  { [ name |-> "corrompido.pdf", pages |-> << Page(<<"R","e","p","o","u","s","o">>), BadPage >> ],
    [ name |-> "digitalizado.pdf", pages |-> << Page(<< >>), Page(<< >>) >> ],
    [ name |-> "laudo_a.pdf", pages |-> << Page(<<"R","e","p","o","u","s","o">>) >> ],
    [ name |-> "laudo_b.pdf", pages |-> << Page(<<"D","o","r">>), Page(<< >>), Page(<<"D","o","r","m","i","r">>) >> ] }

\* the loop of extract_text_from_pdf over the pages that were read
RECURSIVE pages_text(_)
pages_text(pages) ==
  IF pages = << >> THEN << >>
  ELSE LET page_text == pages[Len(pages)].text
       IN  pages_text(SubSeq(pages, 1, Len(pages) - 1))
             \o (IF page_text # << >> THEN page_text \o << "\n" >> ELSE << >>)

\* extract_text_from_pdf(pdf_file): the text returned and whether st.error was called
extract_partial(pdf_file) ==
  LET bad == { i \in DOMAIN pdf_file.pages : pdf_file.pages[i].raises }
  IN  IF bad # {}
      THEN [ text |-> pages_text(SubSeq(pdf_file.pages, 1, MinOf(bad) - 1)), error |-> TRUE ]
      ELSE [ text |-> pages_text(pdf_file.pages), error |-> FALSE ]
extract_text_from_pdf(pdf_file) ==
  IF \E i \in DOMAIN pdf_file.pages : pdf_file.pages[i].raises
  THEN [ text |-> << >>, error |-> TRUE ]
  ELSE [ text |-> pages_text(pdf_file.pages), error |-> FALSE ]

\* The top of the script: the global nlp.  ok: the script goes on; loaded: spacy.load
\* succeeded in this run.
load_model_app(download_ok) ==
  IF cache_resource # 0
  THEN [ ok |-> TRUE, loaded |-> FALSE, nlp |-> cache_resource, cache |-> cache_resource,
         installed |-> installed, shown |-> {} ]
  ELSE IF "pt_core_news_sm" \in installed
  THEN [ ok |-> TRUE, loaded |-> TRUE, nlp |-> loads + 1, cache |-> loads + 1,
         installed |-> installed, shown |-> {} ]
  ELSE IF download_ok
  THEN [ ok |-> TRUE, loaded |-> TRUE, nlp |-> loads + 1, cache |-> loads + 1,
         installed |-> installed \cup {"pt_core_news_sm"}, shown |-> {"baixando_modelo"} ]
  ELSE [ ok |-> FALSE, loaded |-> FALSE, nlp |-> 0, cache |-> 0,
         installed |-> installed, shown |-> {"baixando_modelo", "excecao"} ]

load_model_meu_app ==
  IF "pt_core_news_sm" \in installed
  THEN [ ok |-> TRUE, loaded |-> TRUE, nlp |-> loads + 1, cache |-> 0,
         installed |-> installed, shown |-> {} ]
  ELSE IF "en_core_web_sm" \in installed
  THEN [ ok |-> TRUE, loaded |-> TRUE, nlp |-> loads + 1, cache |-> 0,
         installed |-> installed, shown |-> {"aviso_modelo"} ]
  ELSE [ ok |-> FALSE, loaded |-> FALSE, nlp |-> 0, cache |-> 0,
         installed |-> installed, shown |-> {"aviso_modelo", "erro_modelo"} ]

load_model(download_ok) ==
  IF script = "app" THEN load_model_app(download_ok) ELSE load_model_meu_app

\* One execution of the script with the uploader holding f and st.button returning b.
RunScript(f, b) ==
  \E download_ok \in BOOLEAN :
    LET m == load_model(download_ok)
        x == extract_text_from_pdf(f)
    IN
    /\ m.loaded => loads < MaxLoads
    /\ uploaded_file' = f
    /\ button' = b
    /\ installed' = m.installed
    /\ cache_resource' = m.cache
    /\ nlp' = m.nlp
    /\ loads' = IF m.loaded THEN loads + 1 ELSE loads
    /\ UNCHANGED << script, hashseed >>
    /\ IF ~ m.ok
       THEN \* the run ended at the top of the script
            /\ shown' = m.shown
            /\ pdf_text' = << >>
            /\ doc' = << >>
            /\ analysis_results' = << >>
            /\ UNCHANGED << cache_data, parsed, history >>
       ELSE IF f = NoFile
       THEN /\ shown' = m.shown \cup {"aguardando"}
            /\ pdf_text' = << >>
            /\ doc' = << >>
            /\ analysis_results' = << >>
            /\ UNCHANGED << cache_data, parsed, history >>
       ELSE /\ pdf_text' = x.text
            /\ cache_data' = cache_data \cup {f.name}
            /\ IF x.text = << >>
               THEN /\ shown' = m.shown \cup {"carregado", "erro_sem_texto"}
                                  \cup (IF x.error THEN {"erro_extracao"} ELSE {})
                    /\ doc' = << >>
                    /\ analysis_results' = << >>
                    /\ UNCHANGED << parsed, history >>
               ELSE IF ~ b
               THEN /\ shown' = m.shown \cup {"carregado", "previa", "botao", "clique"}
                                  \cup (IF x.error THEN {"erro_extracao"} ELSE {})
                    /\ doc' = << >>
                    /\ analysis_results' = << >>
                    /\ UNCHANGED << parsed, history >>
               ELSE \E d \in (IF x.text \in DOMAIN parsed THEN {parsed[x.text]}
                              ELSE Docs(x.text)) :
                      LET r == process_medical_text(x.text, d, hashseed)
                      IN  /\ shown' = m.shown \cup {"carregado", "previa", "botao", "resultados"}
                                        \cup (IF x.error THEN {"erro_extracao"} ELSE {})
                          /\ doc' = << d >>
                          /\ analysis_results' = << r >>
                          /\ parsed' = IF x.text \in DOMAIN parsed THEN parsed
                                       ELSE parsed @@ (x.text :> d)
                          /\ history' =
                               IF x.text \in DOMAIN history
                               THEN [ history EXCEPT ![x.text].again = TRUE ]
                               ELSE history @@ (x.text :> [ record |-> r, again |-> FALSE ])

\* the script runs again with the widgets as they are (the first load, a refresh)
Rerun == \E f \in {uploaded_file} : RunScript(f, FALSE)

\* the user picks a file, or removes the one held
Upload == \E f \in Files \cup {NoFile} : f # uploaded_file /\ RunScript(f, FALSE)

\* the user presses the button the last run rendered
Click == "botao" \in shown /\ RunScript(uploaded_file, TRUE)

Init ==
  /\ script \in Scripts
  /\ installed \in SUBSET Models
  /\ hashseed \in HashSeeds
  /\ cache_resource = 0
  /\ cache_data = {}
  /\ loads = 0
  /\ nlp = 0
  /\ uploaded_file = NoFile
  /\ button = FALSE
  /\ pdf_text = << >>
  /\ doc = << >>
  /\ analysis_results = << >>
  /\ shown = {}
  /\ parsed = << >>
  /\ history = << >>

Next == Rerun \/ Upload \/ Click

Spec == Init /\ [][Next]_vars

----------------------------------------------------------------------------
(* Properties *)

Analysed == analysis_results # << >>
Result == analysis_results[1]

\* the index of the first occurrence of w in s, compared character by character
\* (0 when there is none)
FirstIndex(s, w) ==
  LET at == { p \in 1..(Len(s) - Len(w) + 1) :
                s[p] = w[1] /\ SubSeq(s, p, p + Len(w) - 1) = w }
  IN  IF at = {} THEN 0 ELSE MinOf(at)

\* lw stands at index p of lt with no word character right before it and none
\* right after it (lw and lt in lower case)
StandsAloneAt(lw, lt, p) ==
  /\ p >= 1 /\ p + Len(lw) - 1 <= Len(lt)
  /\ lt[p] = lw[1]
  /\ SubSeq(lt, p, p + Len(lw) - 1) = lw
  /\ (p = 1 \/ lt[p - 1] \notin WordChars)
  /\ (p + Len(lw) > Len(lt) \/ lt[p + Len(lw)] \notin WordChars)

\* the indices at which w occurs in text, in any letter case, delimited on both sides
WordOccurrences(w, text) ==
  LET lt == str_lower(text)
      lw == str_lower(w)
  IN  { p \in 1..Len(lt) : StandsAloneAt(lw, lt, p) }
OccursAsWord(w, text) == WordOccurrences(w, text) # {}

AllTerms ==
  Range(keywords_recognition_list) \cup Range(exam_keywords_list)
    \cup Range(treatment_keywords_list) \cup Range(differential_keywords_list)
    \cup Range(diagnosis_triggers)

\* text contains none of the fixed terms, in any letter case, not even inside a word
ContainsNoTerm(text) ==
  LET lt == str_lower(text)
  IN  \A w \in AllTerms : FirstIndex(lt, str_lower(w)) = 0

SentinelRecord ==
  [ palavras_chave          |-> {},
    diagnostico_possivel    |-> NaoIdentificado,
    exames_padrao_ouro      |-> {},
    exames_complementares   |-> {},
    tratamento_sugerido     |-> NaoIdentificado,
    diagnostico_diferencial |-> { NaoIdentificadoManual } ]

\* no entity of the pipeline's output has a label the diagnosis fallback accepts
NoDiagnosisEntity ==
  \A i \in DOMAIN doc[1].ents : doc[1].ents[i].label \notin diagnosis_labels

\* C1, as stated: for a text that contains none of the fixed terms, whatever the
\* pipeline returns, the record holds the sentinel value in every field.
C1_SentinelForAnyPipelineOutput ==
  (Analysed /\ ContainsNoTerm(pdf_text)) => Result = SentinelRecord

\* C1, amended: for a text that contains none of the fixed terms, when the pipeline
\* reports no entity labelled DISEASE, MEDICAL_CONDITION, SYMPTOM or ORG, the record
\* holds the sentinel value in every field.
C1_SentinelWithoutDiagnosisEntity ==
  (Analysed /\ ContainsNoTerm(pdf_text) /\ NoDiagnosisEntity) => Result = SentinelRecord

\* C1 witness: a non-empty text without terms, analysed with an entity of another
\* label in the pipeline's output, gave the sentinel record.
C1_Witness ==
  /\ Analysed /\ pdf_text # << >> /\ ContainsNoTerm(pdf_text)
  /\ doc[1].ents # << >> /\ NoDiagnosisEntity
  /\ Result = SentinelRecord

\* C2: a recognition keyword is in the result exactly when the text holds it, in any
\* letter case, delimited on both sides; inside a longer word it does not count.
C2_KeywordsAreWholeWords ==
  Analysed =>
    \A k \in DOMAIN keywords_recognition_list :
      (keywords_recognition_list[k] \in Result.palavras_chave)
        <=> OccursAsWord(keywords_recognition_list[k], pdf_text)

\* C2 witness: the text holds "dor" only as the start of "Dormir" and in upper case
\* as a word of its own; analysed, "dor" was recognised and nothing else matched it.
C2_Witness ==
  /\ Analysed
  /\ FirstIndex(pdf_text, <<"D","o","r","m","i","r">>) # 0
  /\ FirstIndex(pdf_text, <<"D","O","R">>) # 0
  /\ FirstIndex(pdf_text, <<"d","o","r">>) = 0
  /\ <<"d","o","r">> \in Result.palavras_chave

\* C3: no exam name is in both the gold-standard set and the complementary set.
C3_ExamSetsDisjoint ==
  Analysed => Result.exames_padrao_ouro \cap Result.exames_complementares = {}

\* C3 witness: a text with exams of both kinds was analysed.
C3_Witness ==
  Analysed /\ Result.exames_padrao_ouro # {} /\ Result.exames_complementares # {}

Ellipsis == <<".",".",".">>
EndsWithEllipsis(s) == Len(s) >= 3 /\ SubSeq(s, Len(s) - 2, Len(s)) = Ellipsis

\* at most 100 characters (103 with the truncation marker), not empty, first
\* character an upper-case letter
BoundedAndCapitalized(s) ==
  /\ s # << >>
  /\ s[1] \in Range(UpperLetters)
  /\ (Len(s) <= TruncateAt \/ (Len(s) <= TruncateAt + 3 /\ EndsWithEllipsis(s)))

\* C4: a possible diagnosis other than the sentinel, and every differential
\* diagnosis other than the sentinel, has at most 100 characters (103 with "..."),
\* is not empty and starts with an upper-case character.
C4_CapturesBoundedAndCapitalized ==
  Analysed =>
    /\ (Result.diagnostico_possivel # NaoIdentificado
          => BoundedAndCapitalized(Result.diagnostico_possivel))
    /\ \A e \in Result.diagnostico_diferencial \ { NaoIdentificadoManual } :
         BoundedAndCapitalized(e)

\* at most 100 characters of content, then "..." when there was more
AtMostHundred(s) ==
  Len(s) <= TruncateAt \/ (Len(s) = TruncateAt + 3 /\ EndsWithEllipsis(s))

\* C5, as stated: the possible diagnosis and the suggested treatment hold at most 100
\* characters of content (plus "..."), on every path that writes them.
C5_BothStringFieldsTruncated ==
  Analysed =>
    AtMostHundred(Result.diagnostico_possivel) /\ AtMostHundred(Result.tratamento_sugerido)

\* the capture m of the diagnosis regex, trimmed and stripped of trailing punctuation
CleanedCapture(m) == strip_trailing(strip(m.group))

\* C5, amended: when the diagnosis regex matches, the possible diagnosis is the
\* cleaned capture if that has at most 100 characters, and otherwise its first 100
\* characters followed by "..."; the other paths are not truncated.
C5_RegexDiagnosisTruncated ==
  Analysed =>
    LET m == match_diag(pdf_text)
        c == CleanedCapture(m)
    IN  m.found =>
          IF Len(c) <= TruncateAt
          THEN Len(Result.diagnostico_possivel) = Len(c)
          ELSE /\ Len(Result.diagnostico_possivel) = TruncateAt + 3
               /\ EndsWithEllipsis(Result.diagnostico_possivel)
               /\ str_lower(SubSeq(Result.diagnostico_possivel, 1, TruncateAt))
                    = str_lower(SubSeq(c, 1, TruncateAt))

\* C5 witness: a capture of more than 100 characters was cut and marked.
C5_Witness ==
  /\ Analysed
  /\ Len(Result.diagnostico_possivel) = TruncateAt + 3
  /\ EndsWithEllipsis(Result.diagnostico_possivel)
  /\ LET m == match_diag(pdf_text)
     IN  m.found /\ Len(CleanedCapture(m)) > TruncateAt

GoldWithinRadius(text, exam, p) ==
  LET lt == str_lower(text)
  IN  \E g \in gold_phrases :
        \E q \in 1..Len(lt) :
          /\ q >= p - ContextRadius
          /\ q + Len(g) - 1 <= p + Len(exam) - 1 + ContextRadius
          /\ q + Len(g) - 1 <= Len(lt)
          /\ SubSeq(lt, q, q + Len(g) - 1) = g

\* the index of the first whole-word occurrence of w in text (0 when there is none)
FirstWordIndex(w, text) ==
  LET at == WordOccurrences(w, text)
  IN  IF at = {} THEN 0 ELSE MinOf(at)

\* C7: an exam term that occurs as a whole word is in the gold-standard set, and not
\* in the complementary set, when "padrão ouro" or "gold standard" lies within 50
\* characters of its first occurrence, and in the complementary set otherwise.
C7_GoldByContextOfFirstOccurrence ==
  Analysed =>
    \A k \in DOMAIN exam_keywords_list :
      LET exam == exam_keywords_list[k]
          p == FirstWordIndex(exam, pdf_text)
      IN  p # 0 =>
            IF GoldWithinRadius(pdf_text, exam, p)
            THEN /\ capitalize(exam) \in Result.exames_padrao_ouro
                 /\ capitalize(exam) \notin Result.exames_complementares
            ELSE capitalize(exam) \in Result.exames_complementares

FileRaises(f) == \E i \in DOMAIN f.pages : f.pages[i].raises
FileHasNoText(f) == \A i \in DOMAIN f.pages : f.pages[i].text = << >>

\* C8: the analysis runs only with a file uploaded, a non-empty extracted text and
\* the button pressed; when extraction raises or yields no text, the text is empty,
\* no exception leaves extract_text_from_pdf, an error is shown, and neither the
\* analysis nor the results section is reached in that run.
C8_AnalysisOnlyAfterExtraction ==
  /\ Analysed =>
       /\ uploaded_file # NoFile /\ button /\ pdf_text # << >>
       /\ ~ FileRaises(uploaded_file) /\ ~ FileHasNoText(uploaded_file)
       /\ "resultados" \in shown
  /\ "resultados" \in shown => Analysed
  /\ ("carregado" \in shown /\ (FileRaises(uploaded_file) \/ FileHasNoText(uploaded_file))) =>
       /\ pdf_text = << >>
       /\ "erro_sem_texto" \in shown
       /\ "excecao" \notin shown
       /\ ~ Analysed
       /\ "resultados" \notin shown
       /\ "botao" \notin shown

\* C8 witness: a file whose extraction raised after a page with text was uploaded;
\* the run showed the errors and stopped before the analysis.
C8_Witness ==
  /\ "carregado" \in shown
  /\ FileRaises(uploaded_file) /\ ~ FileHasNoText(uploaded_file)
  /\ "erro_extracao" \in shown /\ "erro_sem_texto" \in shown
  /\ ~ Analysed

\* the terminators as C9 names them: a period, a newline, one of the whole words
\* "e", "para", "em", "com", "sem", or the end of the text
ClaimedTerminator(t, p) ==
  \/ p = Len(t) + 1
  \/ p <= Len(t) /\ t[p] \in {".", "\n"}
  \/ \E w \in { <<"e">>, <<"p","a","r","a">>, <<"e","m">>, <<"c","o","m">>, <<"s","e","m">> } :
       StandsAloneAt(w, str_lower(t), p)

\* the index right after the first trigger phrase of text (0 when it has none)
AfterFirstTrigger(text) ==
  LET lt == str_lower(text)
      at == { p \in 1..Len(lt) :
                \E k \in DOMAIN diagnosis_triggers :
                  /\ p + Len(diagnosis_triggers[k]) - 1 <= Len(lt)
                  /\ SubSeq(lt, p, p + Len(diagnosis_triggers[k]) - 1) = diagnosis_triggers[k] }
  IN  IF at = {} THEN 0
      ELSE LET p == MinOf(at)
               k == CHOOSE k \in DOMAIN diagnosis_triggers :
                      /\ p + Len(diagnosis_triggers[k]) - 1 <= Len(lt)
                      /\ SubSeq(lt, p, p + Len(diagnosis_triggers[k]) - 1)
                           = diagnosis_triggers[k]
           IN  p + Len(diagnosis_triggers[k])

\* the text C9 says is captured: from after the first trigger and the colons and
\* white space that follow it, up to the first terminator
ClaimedCapture(text) ==
  LET p == AfterFirstTrigger(text)
      q == p + run_length(text, p, SpaceChars \cup {":"})
      g == MinOf({ g \in 0..(Len(text) - q + 1) : ClaimedTerminator(text, q + g) })
  IN  SubSeq(text, q, q + g - 1)

\* C9: with a trigger phrase in the text, the possible diagnosis is the text after
\* the first trigger up to the first terminator (a period, a newline, a whole word
\* "e", "para", "em", "com" or "sem", the end), trimmed, stripped of trailing
\* punctuation and capitalized; a word that merely ends in "e" or "em" is not cut.
\* Stated for captures made of word characters, spaces, commas and hyphens, of at
\* most 100 characters.
C9_DiagnosisUpToWholeWordTerminator ==
  (/\ Analysed
   /\ AfterFirstTrigger(pdf_text) # 0
   /\ ClaimedCapture(pdf_text) # << >>
   /\ Len(ClaimedCapture(pdf_text)) <= TruncateAt
   /\ \A i \in DOMAIN ClaimedCapture(pdf_text) :
        ClaimedCapture(pdf_text)[i] \in DiagnosisChars)
  => Result.diagnostico_possivel
       = capitalize(strip_trailing(strip(ClaimedCapture(pdf_text))))

\* C10: over the runs of the script in one process the language model is loaded at
\* most once, and every run uses that one instance; for both copies of the script.
C10_ModelLoadedAtMostOnce ==
  loads <= 1 /\ nlp \in {0, 1}

\* the sentences of the pipeline's output that hold a treatment term as a whole word,
\* by their place in the document
TreatmentSentences ==
  { i \in DOMAIN doc[1].sents :
      \E k \in DOMAIN treatment_keywords_list :
        OccursAsWord(treatment_keywords_list[k], doc[1].sents[i]) }

\* the treatment terms that are whole words of the raw text, by their place in the list
TreatmentTermsInText ==
  { k \in DOMAIN treatment_keywords_list :
      OccursAsWord(treatment_keywords_list[k], pdf_text) }

\* C11: the suggested treatment is the first min(2, n) sentences, in document order,
\* that hold a treatment term as a whole word, each trimmed, joined by one space and
\* capitalized; later sentences do not count.  With n = 0, it is the first term of
\* the list that is a whole word of the raw text followed by " (mencionado)", and
\* the sentinel when there is none.
C11_TreatmentFromFirstTwoSentences ==
  Analysed =>
    LET sents == doc[1].sents
        hits == TreatmentSentences
    IN  IF hits # {}
        THEN LET i1 == MinOf(hits)
                 rest == hits \ {i1}
             IN  Result.tratamento_sugerido =
                   capitalize(IF rest = {} THEN strip(sents[i1])
                              ELSE strip(sents[i1]) \o <<" ">> \o strip(sents[MinOf(rest)]))
        ELSE IF TreatmentTermsInText # {}
        THEN Result.tratamento_sugerido =
               capitalize(treatment_keywords_list[MinOf(TreatmentTermsInText)]) \o Mencionado
        ELSE Result.tratamento_sugerido = NaoIdentificado

\* C11 witness: three sentences hold a treatment term and the third is left out.
C11_Witness ==
  /\ Analysed
  /\ Cardinality(TreatmentSentences) = 3
  /\ Len(Result.tratamento_sugerido) < Len(pdf_text) - 10

\* a run in which no sentence holds a term that the raw text holds: the term is
\* named with " (mencionado)"
C11_FallbackReached ==
  /\ Analysed
  /\ TreatmentSentences = {}
  /\ TreatmentTermsInText # {}
  /\ Result.tratamento_sugerido = <<"U","s","o"," ","d","e"," ","(","m","e","n","c","i","o","n","a","d","o",")">>

\* the differential triggers that are whole words of the raw text, in any letter case
TriggersInText ==
  { k \in DOMAIN differential_keywords_list :
      OccursAsWord(differential_keywords_list[k], pdf_text) }

\* C12: the differential diagnosis holds the sentinel exactly when no trigger is a
\* whole word of the text, and then nothing else; with a trigger in the text it is
\* not empty and has at most one entry for each trigger that is there.
C12_SentinelOnlyWithoutTrigger ==
  Analysed =>
    /\ (NaoIdentificadoManual \in Result.diagnostico_diferencial) <=> (TriggersInText = {})
    /\ (TriggersInText = {}) => Result.diagnostico_diferencial = { NaoIdentificadoManual }
    /\ (TriggersInText # {}) =>
         /\ Result.diagnostico_diferencial # {}
         /\ Cardinality(Result.diagnostico_diferencial) <= Cardinality(TriggersInText)

\* C12 witness: two triggers are in the text and gave the same entry, kept once.
C12_Witness ==
  /\ Analysed
  /\ Cardinality(TriggersInText) = 2
  /\ Cardinality(Result.diagnostico_diferencial) = 1
  /\ NaoIdentificadoManual \notin Result.diagnostico_diferencial

\* C13: for each trigger that is a whole word of the text the capture regex anchored
\* on it matches, and the entries are the processed captures: the capitalized
\* trigger is never added in place of a capture.
C13_CaptureAlwaysMatches ==
  Analysed =>
    /\ \A k \in TriggersInText : match_dd(pdf_text, differential_keywords_list[k]).found
    /\ (TriggersInText # {}) =>
         Result.diagnostico_diferencial =
           { capitalize(truncate(strip_trailing(strip(
               match_dd(pdf_text, differential_keywords_list[k]).group)))) :
             k \in TriggersInText }

\* C13 witness: the text ends right after a trigger, with no period and no newline;
\* the regex matched at the end of the text with an empty capture.
C13_Witness ==
  /\ Analysed
  /\ pdf_text = <<"E","x","c","l","u","i","r">>
  /\ Result.diagnostico_diferencial = { << >> }

====
